---- MODULE Spec2Model ----
(***************************************************************************)
(* The postcard wire format as exercised by the fixture generator          *)
(* (test-fixtures/src/main.rs, test-fixtures/src/types.rs).                *)
(*                                                                         *)
(* write_fixture hands every sample value to postcard::to_allocvec; the    *)
(* derives in types.rs fix how each type maps onto the serde data model.   *)
(* Encode below is that serializer.  Decode is the deserializer the        *)
(* fixtures are written for; the generator itself never calls it.          *)
(*                                                                         *)
(* Integers and floats are bit vectors (sequences of 0/1, index 1 the      *)
(* least significant bit) so that 64 and 128 bit values keep their width.  *)
(***************************************************************************)
EXTENDS Integers, Sequences, FiniteSets, TLC

(***************************************************************************)
(* Bit vectors                                                             *)
(***************************************************************************)
Zeros(n) == [i \in 1..n |-> 0]

Ones(n) == [i \in 1..n |-> 1]

\* The low n bits set, the rest of the w bits clear: 2^n - 1 in width w.
LowOnes(n, w) == [i \in 1..w |-> IF i <= n THEN 1 ELSE 0]

\* Only bit n+1 set: 2^n in width w.
OneBit(n, w) == [i \in 1..w |-> IF i = n + 1 THEN 1 ELSE 0]

\* A natural below 2^31 as a w-bit vector (truncated to w bits, as a cast).
FromNat(n, w) == [i \in 1..w |-> IF i > 31 THEN 0 ELSE (n \div 2^(i - 1)) % 2]

\* A literal written as hexadecimal digits, most significant first.
FromHex(h, w) ==
    [i \in 1..w |->
        LET d == Len(h) - ((i - 1) \div 4)
        IN  IF d < 1 THEN 0 ELSE (h[d] \div 2^((i - 1) % 4)) % 2]

RECURSIVE ToNat(_)
ToNat(b) == IF Len(b) = 0 THEN 0
            ELSE IF \A i \in 1..Len(b) : b[i] = 0 THEN 0
            ELSE b[1] + 2 * ToNat(Tail(b))

Xor(a, b) == IF a = b THEN 0 ELSE 1

\* value >> 7 on an unsigned value of the same width
Shr7(b) == [i \in 1..Len(b) |-> IF i + 7 <= Len(b) THEN b[i + 7] ELSE 0]

\* value << n, bits shifted out of the width are dropped
Shl(b, n) == [i \in 1..Len(b) |-> IF i > n THEN b[i - n] ELSE 0]

BitOr(a, b) == [i \in 1..Len(a) |-> IF a[i] = 1 \/ b[i] = 1 THEN 1 ELSE 0]

\* value.to_le_bytes()[0]
LowByte(b) == ToNat(SubSeq(b, 1, 8))

\* value < 128
Below128(b) == \A i \in 8..Len(b) : b[i] = 0

\* byte | 0x80
Or80(x) == IF x >= 128 THEN x ELSE x + 128

\* Two's complement of a small integer in width w.
FromInt(n, w) ==
    IF n >= 0 THEN FromNat(n, w)
    ELSE LET m == FromNat(-n - 1, w) IN [i \in 1..w |-> 1 - m[i]]

\* The signed value of a bit vector whose magnitude fits 31 bits.
ToInt(b) ==
    IF b[Len(b)] = 0 THEN ToNat(b)
    ELSE -(ToNat([i \in 1..Len(b) |-> 1 - b[i]])) - 1

(***************************************************************************)
(* Variable-length integers                                                *)
(***************************************************************************)
\* Number of 7-bit groups a w-bit value can need.
varint_max(w) == (w + 6) \div 7

\* Largest legal value of the last group of a maximal-length varint.
max_of_last_byte(w) == 2^(w % 7) - 1

\* As varint, but the continuation bit is never set.
RECURSIVE varint_no_continuation(_)
varint_no_continuation(b) ==
    IF Below128(b) THEN <<LowByte(b)>>
    ELSE <<LowByte(b) % 128>> \o varint_no_continuation(Shr7(b))

\* As varint, but a value of more than one group is always closed by a
\* further group of zero.
RECURSIVE varint_closing_zero(_)
varint_closing_zero(b) ==
    IF Below128(b) THEN <<LowByte(b)>>
    ELSE IF Below128(Shr7(b)) THEN <<Or80(LowByte(b)), Or80(LowByte(Shr7(b))), 0>>
    ELSE <<Or80(LowByte(b))>> \o varint_closing_zero(Shr7(b))

\* Low seven bits first; every byte but the last carries 0x80.
RECURSIVE varint(_)
varint(b) ==
    IF Below128(b) THEN <<LowByte(b)>>
    ELSE <<Or80(LowByte(b))>> \o varint(Shr7(b))

\* As zig_zag, but the right shift is logical: only the lowest bit sees the sign.
zig_zag_logical_shift(b) ==
    [i \in 1..Len(b) |->
        IF i = 1 THEN b[Len(b)] ELSE b[i - 1]]

\* (n << 1) ^ (n >> (w - 1)), the right shift arithmetic
zig_zag(b) ==
    [i \in 1..Len(b) |-> Xor(IF i = 1 THEN 0 ELSE b[i - 1], b[Len(b)])]

\* (n >> 1) ^ -(n & 1)
de_zig_zag(b) ==
    [i \in 1..Len(b) |-> Xor(IF i < Len(b) THEN b[i + 1] ELSE 0, b[1])]

\* A length or count: usize, 64 bits on the fixture generator's targets.
usize(n) == FromNat(n, 64)

\* The bytes most significant first.
to_be_bytes(b) ==
    [k \in 1..(Len(b) \div 8) |->
        ToNat(SubSeq(b, Len(b) - 8 * k + 1, Len(b) - 8 * k + 8))]

\* to_bits().to_le_bytes() of a float, to_le_bytes of an integer
to_le_bytes(b) ==
    [k \in 1..(Len(b) \div 8) |-> ToNat(SubSeq(b, 8 * k - 7, 8 * k))]

from_le_bytes(bs) ==
    [i \in 1..(8 * Len(bs)) |-> (bs[((i - 1) \div 8) + 1] \div 2^((i - 1) % 8)) % 2]

\* char::encode_utf8 of a code point
encode_utf8(c) ==
    IF c < 128 THEN <<c>>
    ELSE IF c < 2048 THEN <<192 + (c \div 64), 128 + (c % 64)>>
    ELSE IF c < 65536 THEN
        <<224 + (c \div 4096), 128 + ((c \div 64) % 64), 128 + (c % 64)>>
    ELSE <<240 + (c \div 262144), 128 + ((c \div 4096) % 64),
           128 + ((c \div 64) % 64), 128 + (c % 64)>>

(***************************************************************************)
(* Decode results                                                          *)
(***************************************************************************)
Ok(v, rest) == [err |-> "none", val |-> v, rest |-> rest]

Err(e) == [err |-> e, val |-> <<>>, rest |-> <<>>]

\* Reads one varint of width w: group i is or-ed in at bit 7*i.  The buffer
\* running out is the input ending early; too many groups, or a last group
\* with bits beyond the width, is a malformed varint.
RECURSIVE take_varint(_, _, _, _)
take_varint(buf, w, i, out) ==
    IF i >= varint_max(w) THEN Err("MalformedVarint")
    ELSE IF buf = <<>> THEN Err("TruncatedInput")
    ELSE LET val == Head(buf)
             carry == FromNat(val % 128, w)
             out2 == BitOr(out, Shl(carry, 7 * i))
         IN  IF val < 128
             THEN IF i = varint_max(w) - 1 /\ val > max_of_last_byte(w)
                  THEN Err("MalformedVarint")
                  ELSE Ok(out2, Tail(buf))
             ELSE take_varint(Tail(buf), w, i + 1, out2)

try_take_varint(buf, w) == take_varint(buf, w, 0, Zeros(w))

\* A count larger than any buffer of the model stands for "more than there is".
BigCount == 2^20

CountOf(b) == IF \A i \in 21..Len(b) : b[i] = 0 THEN ToNat(b) ELSE BigCount

\* The code point of a UTF-8 sequence that is exactly one well-formed scalar,
\* -1 otherwise (overlong forms, surrogates and values past U+10FFFF are
\* not well formed).
utf8_scalar(bs) ==
    LET n == Len(bs)
        cont(i) == bs[i] >= 128 /\ bs[i] < 192
    IN  IF n = 1 /\ bs[1] < 128 THEN bs[1]
        ELSE IF n = 2 /\ bs[1] >= 194 /\ bs[1] < 224 /\ cont(2)
             THEN (bs[1] - 192) * 64 + (bs[2] - 128)
        ELSE IF n = 3 /\ bs[1] >= 224 /\ bs[1] < 240 /\ cont(2) /\ cont(3)
             THEN LET c == (bs[1] - 224) * 4096 + (bs[2] - 128) * 64 + (bs[3] - 128)
                  IN  IF c < 2048 \/ (c >= 55296 /\ c < 57344) THEN -1 ELSE c
        ELSE IF n = 4 /\ bs[1] >= 240 /\ bs[1] < 245 /\ cont(2) /\ cont(3) /\ cont(4)
             THEN LET c == (bs[1] - 240) * 262144 + (bs[2] - 128) * 4096
                           + (bs[3] - 128) * 64 + (bs[4] - 128)
                  IN  IF c < 65536 \/ c > 1114111 THEN -1 ELSE c
        ELSE -1

utf8_width(b) ==
    IF b < 128 THEN 1 ELSE IF b < 192 THEN 0 ELSE IF b < 224 THEN 2
    ELSE IF b < 240 THEN 3 ELSE IF b < 248 THEN 4 ELSE 0

\* core::str::from_utf8 succeeds: every byte that is not a continuation byte
\* starts a well-formed scalar, and every continuation byte lies inside one.
valid_utf8(bs) ==
    LET cont(i) == bs[i] >= 128 /\ bs[i] < 192
    IN  \A i \in 1..Len(bs) :
            IF cont(i)
            THEN \E d \in 1..3 :
                    /\ i - d >= 1
                    /\ ~cont(i - d)
                    /\ utf8_width(bs[i - d]) > d
                    /\ \A e \in 1..(d - 1) : cont(i - e)
            ELSE /\ utf8_width(bs[i]) >= 1
                 /\ i + utf8_width(bs[i]) - 1 <= Len(bs)
                 /\ utf8_scalar(SubSeq(bs, i, i + utf8_width(bs[i]) - 1)) >= 0

(***************************************************************************)
(* Schemas: the serde data model shapes the derives of types.rs produce    *)
(***************************************************************************)
SBool == [k |-> "bool"]

SU(w) == [k |-> "u", w |-> w]

SI(w) == [k |-> "i", w |-> w]

SF(w) == [k |-> "f", w |-> w]

SChar == [k |-> "char"]

SStr == [k |-> "str"]

SSeq(of) == [k |-> "seq", of |-> of]

SMap(key, val) == [k |-> "map", key |-> key, val |-> val]

SOpt(of) == [k |-> "opt", of |-> of]

\* struct, tuple, tuple struct, fixed-size array: the fields in order
STuple(fs) == [k |-> "tuple", fs |-> fs]

SNewtype(of) == [k |-> "newtype", of |-> of]

SUnit == [k |-> "unit"]

\* enum: per variant, in declaration order, the list of its payload fields
SEnum(vs) == [k |-> "enum", vs |-> vs]

\* An enum value: the declaration index of its variant and the payload fields.
Variant(idx, payload) == [idx |-> idx, payload |-> payload]

(***************************************************************************)
(* Encode: postcard::to_allocvec                                           *)
(***************************************************************************)
\* serialize_u8 pushes the byte itself; wider unsigned integers are varints
EncodeUnsigned(v, w) == IF w = 8 THEN <<LowByte(v)>> ELSE varint(v)

\* serialize_i8 pushes the two's complement byte; wider signed integers are
\* zig-zag folded and then written as varints
EncodeSigned(v, w) == IF w = 8 THEN <<LowByte(v)>> ELSE varint(zig_zag(v))

\* Present written as a byte of all ones.
OptionTag_all_ones(present) == IF present THEN 255 ELSE 0

\* serialize_none / serialize_some: the discriminant byte
OptionTag(present) == IF present THEN 1 ELSE 0

\* The count as four little-endian bytes.
EncodeLen_fixed32(n) == to_le_bytes(FromNat(n, 32))

\* serialize_seq, serialize_map, serialize_str: the count as a usize varint
EncodeLen(n) == varint(usize(n))

\* Variants counted from one.
EncodeVariantIndex_one_based(idx) == varint(FromNat(idx + 1, 32))

\* serialize_*_variant: the declaration index as a u32 varint
EncodeVariantIndex(idx) == varint(FromNat(idx, 32))

RECURSIVE Encode(_, _), EncodeAll(_, _), EncodeSeq(_, _), EncodeMap(_, _, _)
Encode(v, S) ==
    CASE S.k = "bool" -> <<IF v THEN 1 ELSE 0>>
      [] S.k = "u" -> EncodeUnsigned(v, S.w)
      [] S.k = "i" -> EncodeSigned(v, S.w)
      [] S.k = "f" -> to_le_bytes(v)
      [] S.k = "char" -> LET u == encode_utf8(v) IN EncodeLen(Len(u)) \o u
      [] S.k = "str" -> EncodeLen(Len(v)) \o v
      [] S.k = "seq" -> EncodeLen(Len(v)) \o EncodeSeq(v, S.of)
      [] S.k = "map" -> EncodeLen(Len(v)) \o EncodeMap(v, S.key, S.val)
      [] S.k = "opt" -> IF v = <<>> THEN <<OptionTag(FALSE)>>
                        ELSE <<OptionTag(TRUE)>> \o Encode(v[1], S.of)
      [] S.k = "tuple" -> EncodeAll(v, S.fs)
      [] S.k = "newtype" -> Encode(v, S.of)
      [] S.k = "unit" -> <<>>
      [] S.k = "enum" ->
            EncodeVariantIndex(v.idx) \o EncodeAll(v.payload, S.vs[v.idx + 1])

EncodeAll(vs, fs) ==
    IF fs = <<>> THEN <<>>
    ELSE Encode(Head(vs), Head(fs)) \o EncodeAll(Tail(vs), Tail(fs))

EncodeSeq(vs, of) ==
    IF vs = <<>> THEN <<>>
    ELSE Encode(Head(vs), of) \o EncodeSeq(Tail(vs), of)

\* entries in the map's iteration order, key then value
EncodeMap(es, key, val) ==
    IF es = <<>> THEN <<>>
    ELSE Encode(Head(es)[1], key) \o Encode(Head(es)[2], val)
         \o EncodeMap(Tail(es), key, val)

(***************************************************************************)
(* Decode: the deserializer for the same wire format, returning the value  *)
(* and the bytes it did not consume.  It reads what the serializer writes  *)
(* (an 8-bit integer as one byte, a char as UTF-8 text behind its length)  *)
(* and reports every way the input can end early as TruncatedInput.        *)
(***************************************************************************)
DecodeUnsigned(buf, w) ==
    IF w = 8 THEN IF buf = <<>> THEN Err("TruncatedInput")
                  ELSE Ok(FromNat(Head(buf), 8), Tail(buf))
    ELSE try_take_varint(buf, w)

DecodeSigned(buf, w) ==
    IF w = 8 THEN IF buf = <<>> THEN Err("TruncatedInput")
                  ELSE Ok(FromNat(Head(buf), 8), Tail(buf))
    ELSE LET r == try_take_varint(buf, w)
         IN  IF r.err # "none" THEN r ELSE Ok(de_zig_zag(r.val), r.rest)

\* The raw bytes behind a length prefix.
TakeLenBytes(buf) ==
    LET r == try_take_varint(buf, 64)
    IN  IF r.err # "none" THEN r
        ELSE LET n == CountOf(r.val)
             IN  IF Len(r.rest) < n THEN Err("TruncatedInput")
                 ELSE Ok(SubSeq(r.rest, 1, n), SubSeq(r.rest, n + 1, Len(r.rest)))

\* The variant a decoded index selects, if the enum declares one.
VariantKnown(idx, count) == idx < count

\* The meaning of an option's discriminant byte.
OptionTagKind(b) == IF b = 0 THEN "none" ELSE IF b = 1 THEN "some" ELSE "invalid"

RECURSIVE Decode(_, _), DecodeAll(_, _, _), DecodeSeq(_, _, _, _),
          DecodeMap(_, _, _, _, _)
Decode(buf, S) ==
    CASE S.k = "bool" ->
            IF buf = <<>> THEN Err("TruncatedInput")
            ELSE IF Head(buf) = 0 THEN Ok(FALSE, Tail(buf))
            ELSE IF Head(buf) = 1 THEN Ok(TRUE, Tail(buf))
            ELSE Err("InvalidBool")
      [] S.k = "u" -> DecodeUnsigned(buf, S.w)
      [] S.k = "i" -> DecodeSigned(buf, S.w)
      [] S.k = "f" ->
            IF Len(buf) < S.w \div 8 THEN Err("TruncatedInput")
            ELSE Ok(from_le_bytes(SubSeq(buf, 1, S.w \div 8)),
                    SubSeq(buf, (S.w \div 8) + 1, Len(buf)))
      [] S.k = "char" ->
            LET r == TakeLenBytes(buf)
            IN  IF r.err # "none" THEN r
                ELSE IF utf8_scalar(r.val) < 0 THEN Err("InvalidUtf8")
                ELSE Ok(utf8_scalar(r.val), r.rest)
      [] S.k = "str" ->
            LET r == TakeLenBytes(buf)
            IN  IF r.err # "none" THEN r
                ELSE IF ~valid_utf8(r.val) THEN Err("InvalidUtf8")
                ELSE r
      [] S.k = "seq" ->
            LET r == try_take_varint(buf, 64)
            IN  IF r.err # "none" THEN r
                ELSE DecodeSeq(r.rest, S.of, CountOf(r.val), <<>>)
      [] S.k = "map" ->
            LET r == try_take_varint(buf, 64)
            IN  IF r.err # "none" THEN r
                ELSE DecodeMap(r.rest, S.key, S.val, CountOf(r.val), <<>>)
      [] S.k = "opt" ->
            IF buf = <<>> THEN Err("TruncatedInput")
            ELSE IF OptionTagKind(Head(buf)) = "none" THEN Ok(<<>>, Tail(buf))
            ELSE IF OptionTagKind(Head(buf)) = "some" THEN
                LET r == Decode(Tail(buf), S.of)
                IN  IF r.err # "none" THEN r ELSE Ok(<<r.val>>, r.rest)
            ELSE Err("InvalidOptionTag")
      [] S.k = "tuple" -> DecodeAll(buf, S.fs, <<>>)
      [] S.k = "newtype" -> Decode(buf, S.of)
      [] S.k = "unit" -> Ok(<<>>, buf)
      [] S.k = "enum" ->
            LET r == try_take_varint(buf, 32)
            IN  IF r.err # "none" THEN r
                ELSE IF ~VariantKnown(CountOf(r.val), Len(S.vs))
                     THEN Err("UnknownVariant")
                ELSE LET idx == CountOf(r.val)
                         p == DecodeAll(r.rest, S.vs[idx + 1], <<>>)
                     IN  IF p.err # "none" THEN p
                         ELSE Ok(Variant(idx, p.val), p.rest)

DecodeAll(buf, fs, acc) ==
    IF fs = <<>> THEN Ok(acc, buf)
    ELSE LET r == Decode(buf, Head(fs))
         IN  IF r.err # "none" THEN r
             ELSE DecodeAll(r.rest, Tail(fs), Append(acc, r.val))

DecodeSeq(buf, of, n, acc) ==
    IF n = 0 THEN Ok(acc, buf)
    ELSE LET r == Decode(buf, of)
         IN  IF r.err # "none" THEN r
             ELSE DecodeSeq(r.rest, of, n - 1, Append(acc, r.val))

DecodeMap(buf, key, val, n, acc) ==
    IF n = 0 THEN Ok(acc, buf)
    ELSE LET rk == Decode(buf, key)
         IN  IF rk.err # "none" THEN rk
             ELSE LET rv == Decode(rk.rest, val)
                  IN  IF rv.err # "none" THEN rv
                      ELSE DecodeMap(rv.rest, key, val, n - 1,
                                     Append(acc, <<rk.val, rv.val>>))

(***************************************************************************)
(* Equality of values (derive(PartialEq)): a HashMap compares as a set of  *)
(* entries, everything else position by position                           *)
(***************************************************************************)
RECURSIVE ValEq(_, _, _), AllEq(_, _, _)
ValEq(a, b, S) ==
    CASE S.k = "seq" ->
            /\ Len(a) = Len(b)
            /\ \A i \in 1..Len(a) : ValEq(a[i], b[i], S.of)
      [] S.k = "map" ->
            /\ Len(a) = Len(b)
            /\ \A i \in 1..Len(a) : \E j \in 1..Len(b) :
                  /\ ValEq(a[i][1], b[j][1], S.key)
                  /\ ValEq(a[i][2], b[j][2], S.val)
      [] S.k = "opt" ->
            /\ Len(a) = Len(b)
            /\ (Len(a) = 1 => ValEq(a[1], b[1], S.of))
      [] S.k = "tuple" -> AllEq(a, b, S.fs)
      [] S.k = "newtype" -> ValEq(a, b, S.of)
      [] S.k = "enum" ->
            /\ a.idx = b.idx
            /\ AllEq(a.payload, b.payload, S.vs[a.idx + 1])
      [] OTHER -> a = b

AllEq(a, b, fs) ==
    /\ Len(a) = Len(b)
    /\ \A i \in 1..Len(fs) : ValEq(a[i], b[i], fs[i])

\* As Rehash, but a Vec is reordered like a HashMap.
RECURSIVE Rehash_any_collection(_, _, _)
Rehash_any_collection(v, Sc, p) ==
    CASE Sc.k = "seq" ->
            LET es == [i \in 1..Len(v) |-> Rehash_any_collection(v[i], Sc.of, p)]
            IN  IF Len(p) = Len(v) THEN [i \in 1..Len(v) |-> es[p[i]]] ELSE es
      [] Sc.k = "map" ->
            LET es == [i \in 1..Len(v) |->
                          <<v[i][1], Rehash_any_collection(v[i][2], Sc.val, p)>>]
            IN  IF Len(p) = Len(v) THEN [i \in 1..Len(v) |-> es[p[i]]] ELSE es
      [] Sc.k = "opt" -> [i \in 1..Len(v) |-> Rehash_any_collection(v[i], Sc.of, p)]
      [] Sc.k = "tuple" ->
            [i \in 1..Len(v) |-> Rehash_any_collection(v[i], Sc.fs[i], p)]
      [] Sc.k = "newtype" -> Rehash_any_collection(v, Sc.of, p)
      [] Sc.k = "enum" ->
            Variant(v.idx, [i \in 1..Len(v.payload) |->
                Rehash_any_collection(v.payload[i], Sc.vs[v.idx + 1][i], p)])
      [] OTHER -> v

\* The same value with every HashMap of Len(p) entries iterated in the order
\* p: the hasher's seed, not the program, decides a HashMap's iteration order.
RECURSIVE Rehash(_, _, _)
Rehash(v, S, p) ==
    CASE S.k = "seq" -> [i \in 1..Len(v) |-> Rehash(v[i], S.of, p)]
      [] S.k = "map" ->
            LET es == [i \in 1..Len(v) |->
                          <<v[i][1], Rehash(v[i][2], S.val, p)>>]
            IN  IF Len(p) = Len(v) THEN [i \in 1..Len(v) |-> es[p[i]]] ELSE es
      [] S.k = "opt" -> [i \in 1..Len(v) |-> Rehash(v[i], S.of, p)]
      [] S.k = "tuple" -> [i \in 1..Len(v) |-> Rehash(v[i], S.fs[i], p)]
      [] S.k = "newtype" -> Rehash(v, S.of, p)
      [] S.k = "enum" ->
            Variant(v.idx, [i \in 1..Len(v.payload) |->
                               Rehash(v.payload[i], S.vs[v.idx + 1][i], p)])
      [] OTHER -> v

(***************************************************************************)
(* The types of types.rs                                                   *)
(***************************************************************************)
Primitives ==
    STuple(<<SBool, SI(8), SI(16), SI(32), SI(64), SI(128),
             SU(8), SU(16), SU(32), SU(64), SU(128),
             SF(32), SF(64), SChar, SStr>>)

Collections ==
    STuple(<<SSeq(SU(8)), SSeq(SStr), STuple(<<SU(32), SU(32), SU(32), SU(32)>>),
             STuple(<<SU(16), SStr, SBool>>), SOpt(SI(32)), SOpt(SI(32))>>)

\* UnitVariant, NewtypeVariant(u32), TupleVariant(String, i32, bool),
\* StructVariant { x, y, label }
ComplexEnum ==
    SEnum(<< <<>>, <<SU(32)>>, <<SStr, SI(32), SBool>>, <<SF(64), SF(64), SStr>> >>)

InnerStruct == STuple(<<SU(64), SStr>>)

Nested == STuple(<<InnerStruct, SMap(SStr, SI(32)), SSeq(InnerStruct)>>)

EdgeCases ==
    STuple(<<SSeq(SU(8)), SStr, SU(64), SU(8), SI(8), SI(8), SU(16), SU(32), SI(32)>>)

NewtypeStruct == SNewtype(SU(64))

UnitStruct == SUnit

TupleStruct == STuple(<<SStr, SI(32), SBool>>)

Coordinates == STuple(<<SF(64), SF(64), SF(64)>>)

\* Fire, Ice, Lightning
Element == SEnum(<< <<>>, <<>>, <<>> >>)

Weapon == STuple(<<SStr, SU(16), SOpt(Element)>>)

\* Consumable { name, quantity }, Weapon(Weapon), Armor { defense, durability }
Item == SEnum(<< <<SStr, SU(16)>>, <<Weapon>>, <<SU(16), SU(8)>> >>)

Inventory == STuple(<<SSeq(Item), SU(8), SU(32)>>)

Player ==
    STuple(<<SU(64), SStr, Coordinates, SF(32), SU(16), Inventory, SOpt(Weapon)>>)

\* Red, Blue, Green
DragonColor == SEnum(<< <<>>, <<>>, <<>> >>)

DragonData == STuple(<<DragonColor, SU(16)>>)

\* Goblin { id, aggro }, Dragon(DragonData), Skeleton,
\* Boss { name, phase, health_percent }
Enemy == SEnum(<< <<SU(32), SBool>>, <<DragonData>>, <<>>, <<SStr, SU(8), SF(32)>> >>)

Location == STuple(<<SStr, Coordinates, SBool>>)

BossInfo == STuple(<<SStr, SU(8)>>)

World == STuple(<<SStr, SMap(SStr, Location), SOpt(BossInfo)>>)

\* Move { from, to }, Attack { target_id }, UseItem(String)
PlayerAction == SEnum(<< <<Coordinates, Coordinates>>, <<SU(32)>>, <<SStr>> >>)

\* PlayerAction(PlayerAction), EnemySpawn { enemy_type, count },
\* ItemDropped(Item), LocationDiscovered(String)
GameEvent == SEnum(<< <<PlayerAction>>, <<SStr, SU(16)>>, <<Item>>, <<SStr>> >>)

\* Easy, Normal, Hard
Difficulty == SEnum(<< <<>>, <<>>, <<>> >>)

GameMetadata == STuple(<<SStr, SU(64), Difficulty>>)

GameState == STuple(<<Player, SSeq(Enemy), World, SSeq(GameEvent), GameMetadata>>)

(***************************************************************************)
(* The sample values of main.rs.  A string is its UTF-8 bytes; a HashMap   *)
(* is written here in insertion order.                                     *)
(***************************************************************************)
\* char_field is U+1F980; string_field is "Hello, postcard!"
primitives ==
    <<TRUE, FromInt(-42, 8), FromInt(-1000, 16), FromInt(-100000, 32),
      FromHex(<<15, 15, 15, 15, 15, 15, 15, 13, 10, 11, 15, 4, 1, 12, 0, 0>>, 64),
      FromHex(<<15, 15, 15, 15, 15, 15, 15, 14, 7, 1, 1, 6, 15, 0, 0, 9, 3, 12, 8, 12, 1, 15, 1, 1, 11, 1, 12, 0, 15, 5, 2, 14>>, 128),
      FromNat(255, 8), FromNat(65535, 16), Ones(32), Ones(64), Ones(128),
      FromHex(<<12, 2, 0, 0, 0, 6, 0, 0>>, 32),
      FromHex(<<12, 0, 4, 0, 0, 0, 12, 0, 0, 0, 0, 0, 0, 0, 0, 0>>, 64),
      129408,
      <<72, 101, 108, 108, 111, 44, 32, 112, 111, 115, 116, 99, 97, 114, 100, 33>>>>

collections ==
    << <<FromNat(1, 8), FromNat(2, 8), FromNat(3, 8), FromNat(4, 8), FromNat(5, 8)>>,
       <<<<111, 110, 101>>, <<116, 119, 111>>, <<116, 104, 114, 101, 101>>>>,
       <<FromNat(100, 32), FromNat(200, 32), FromNat(300, 32), FromNat(400, 32)>>,
       <<FromNat(42, 16), <<116, 101, 115, 116>>, TRUE>>,
       <<FromInt(12345, 32)>>,
       <<>> >>

enum_unit ==
    Variant(0, <<>>)

enum_newtype ==
    Variant(1, <<FromNat(999, 32)>>)

\* "tuple", -500, false
enum_tuple ==
    Variant(2, <<<<116, 117, 112, 108, 101>>, FromInt(-500, 32), FALSE>>)

\* x: 3.14159, y: 2.71828, label: "point"
enum_struct ==
    Variant(3, <<FromHex(<<4, 0, 0, 9, 2, 1, 15, 9, 15, 0, 1, 11, 8, 6, 6, 14>>, 64),
                  FromHex(<<4, 0, 0, 5, 11, 15, 0, 9, 9, 5, 10, 10, 15, 7, 9, 0>>, 64),
                  <<112, 111, 105, 110, 116>>>>)

\* map: alice -> 100, bob -> 200, charlie -> 300
nested ==
    << <<FromNat(12345, 64), <<112, 114, 105, 109, 97, 114, 121>>>>,
       << <<<<97, 108, 105, 99, 101>>, FromInt(100, 32)>>,
          <<<<98, 111, 98>>, FromInt(200, 32)>>,
          <<<<99, 104, 97, 114, 108, 105, 101>>, FromInt(300, 32)>> >>,
       << <<FromNat(1, 64), <<102, 105, 114, 115, 116>>>>,
          <<FromNat(2, 64), <<115, 101, 99, 111, 110, 100>>>> >> >>

edge_cases ==
    << <<>>, <<>>, FromNat(0, 64), Ones(8), OneBit(7, 8), LowOnes(7, 8), Ones(16), Ones(32), FromInt(-999999, 32)>>

newtype ==
    FromNat(987654321, 64)

unit ==
    <<>>

tuple_struct ==
    <<<<116, 117, 112, 108, 101, 95, 100, 97, 116, 97>>, FromInt(777, 32), TRUE>>

player ==
    <<FromNat(12345, 64), <<72, 101, 114, 111>>,
      <<FromHex(<<4, 0, 2, 5, 0, 0, 0, 0, 0, 0, 0, 0, 0, 0, 0, 0>>, 64), FromHex(<<4, 0, 3, 4, 4, 12, 12, 12, 12, 12, 12, 12, 12, 12, 12, 13>>, 64), FromHex(<<4, 0, 1, 4, 0, 0, 0, 0, 0, 0, 0, 0, 0, 0, 0, 0>>, 64)>>,
      FromHex(<<4, 2, 10, 11, 0, 0, 0, 0>>, 32), FromNat(120, 16),
      << << Variant(0, <<<<72, 101, 97, 108, 116, 104, 32, 80, 111, 116, 105, 111, 110>>, FromNat(5, 16)>>),
            Variant(1, <<<<<<70, 108, 97, 109, 105, 110, 103, 32, 83, 119, 111, 114, 100>>, FromNat(50, 16), <<Variant(0, <<>>)>> >>>>),
            Variant(2, <<FromNat(30, 16), FromNat(95, 8)>>) >>,
         FromNat(20, 8), FromNat(1500, 32) >>,
      <<<<<<70, 114, 111, 115, 116, 32, 66, 111, 119>>, FromNat(35, 16), <<Variant(1, <<>>)>> >>>> >>

enemies ==
    << Variant(0, <<FromNat(1, 32), TRUE>>),
       Variant(1, << <<Variant(0, <<>>), FromNat(500, 16)>> >>),
       Variant(2, <<>>),
       Variant(3, <<<<68, 97, 114, 107, 32, 76, 111, 114, 100>>, FromNat(2, 8), FromHex(<<4, 2, 8, 3, 9, 9, 9, 10>>, 32)>>) >>

\* forest, cave, castle
locations ==
    << <<<<102, 111, 114, 101, 115, 116>>,
          <<<<68, 101, 110, 115, 101, 32, 119, 111, 111, 100, 108, 97, 110, 100>>,
             <<FromHex(<<0, 0, 0, 0, 0, 0, 0, 0, 0, 0, 0, 0, 0, 0, 0, 0>>, 64), FromHex(<<0, 0, 0, 0, 0, 0, 0, 0, 0, 0, 0, 0, 0, 0, 0, 0>>, 64), FromHex(<<0, 0, 0, 0, 0, 0, 0, 0, 0, 0, 0, 0, 0, 0, 0, 0>>, 64)>>,
             TRUE>>>>,
       <<<<99, 97, 118, 101>>,
          <<<<68, 97, 114, 107, 32, 99, 97, 118, 101, 114, 110>>,
             <<FromHex(<<4, 0, 2, 14, 0, 0, 0, 0, 0, 0, 0, 0, 0, 0, 0, 0>>, 64), FromHex(<<12, 0, 1, 4, 0, 0, 0, 0, 0, 0, 0, 0, 0, 0, 0, 0>>, 64), FromHex(<<12, 0, 2, 4, 0, 0, 0, 0, 0, 0, 0, 0, 0, 0, 0, 0>>, 64)>>,
             FALSE>>>>,
       <<<<99, 97, 115, 116, 108, 101>>,
          <<<<65, 110, 99, 105, 101, 110, 116, 32, 102, 111, 114, 116, 114, 101, 115, 115>>,
             <<FromHex(<<4, 0, 5, 9, 0, 0, 0, 0, 0, 0, 0, 0, 0, 0, 0, 0>>, 64), FromHex(<<4, 0, 4, 9, 0, 0, 0, 0, 0, 0, 0, 0, 0, 0, 0, 0>>, 64), FromHex(<<4, 0, 3, 4, 0, 0, 0, 0, 0, 0, 0, 0, 0, 0, 0, 0>>, 64)>>,
             FALSE>>>> >>

world ==
    <<<<82, 101, 97, 108, 109, 32, 111, 102, 32, 84, 101, 115, 116, 105, 110, 103>>, locations,
      << <<<<84, 104, 101, 32, 70, 105, 110, 97, 108, 32, 84, 101, 115, 116>>, FromNat(10, 8)>> >> >>

events ==
    << Variant(0, <<Variant(0, <<<<FromHex(<<0, 0, 0, 0, 0, 0, 0, 0, 0, 0, 0, 0, 0, 0, 0, 0>>, 64), FromHex(<<0, 0, 0, 0, 0, 0, 0, 0, 0, 0, 0, 0, 0, 0, 0, 0>>, 64), FromHex(<<0, 0, 0, 0, 0, 0, 0, 0, 0, 0, 0, 0, 0, 0, 0, 0>>, 64)>>,
                                   <<FromHex(<<4, 0, 2, 5, 0, 0, 0, 0, 0, 0, 0, 0, 0, 0, 0, 0>>, 64), FromHex(<<4, 0, 3, 4, 4, 12, 12, 12, 12, 12, 12, 12, 12, 12, 12, 13>>, 64), FromHex(<<4, 0, 1, 4, 0, 0, 0, 0, 0, 0, 0, 0, 0, 0, 0, 0>>, 64)>>>>)>>),
       Variant(1, <<<<71, 111, 98, 108, 105, 110>>, FromNat(3, 16)>>),
       Variant(2, <<Variant(0, <<<<77, 97, 110, 97, 32, 80, 111, 116, 105, 111, 110>>, FromNat(2, 16)>>)>>),
       Variant(0, <<Variant(1, <<FromNat(1, 32)>>)>>),
       Variant(3, <<<<99, 97, 118, 101>>>>) >>

metadata ==
    <<<<49, 46, 48, 46, 48>>, FromNat(1699000000, 64), Variant(1, <<>>)>>

game_state ==
    <<player, enemies, world, events, metadata>>


(***************************************************************************)
(* Values the field types of types.rs range over, beyond the literals of   *)
(* main.rs                                                                 *)
(***************************************************************************)
\* Integers are tried exhaustively up to this magnitude, then at the powers
\* of two and their predecessors up to the full width.
MaxSmall == 32

\* Bytes appended after an encoding are up to MaxTail long.
MaxTail == 2

TailBytes == {0, 255}

\* The HashMaps of main.rs hold three entries each.
MapEntries == 3

Complement(b) == [i \in 1..Len(b) |-> 1 - b[i]]

USamples(w) ==
    {FromNat(n, w) : n \in 0..(IF w = 8 THEN 255 ELSE MaxSmall)}
    \cup (IF w > 8 THEN {FromNat(300, w)} ELSE {})
    \cup {LowOnes(n, w) : n \in 0..w}
    \cup {OneBit(n, w) : n \in 0..(w - 1)}

ISamples(w) ==
    {FromInt(n, w) : n \in (IF w = 8 THEN -128 ELSE -MaxSmall)..(IF w = 8 THEN 127 ELSE MaxSmall)}
    \cup {LowOnes(n, w) : n \in 0..w}
    \cup {OneBit(n, w) : n \in 0..(w - 1)}
    \cup {Complement(LowOnes(n, w)) : n \in 0..w}
    \cup {Complement(OneBit(n, w)) : n \in 0..(w - 1)}

Rep(x, n) == [i \in 1..n |-> x]

TypeNames ==
    {"U8", "U16", "U32", "U64", "U128", "I8", "I16", "I32", "I64", "I128",
     "Bool", "F32", "F64", "Char", "String", "OptionI32", "VecU8", "VecString",
     "MapStringI32", "Primitives", "Collections", "ComplexEnum", "Nested",
     "EdgeCases", "NewtypeStruct", "UnitStruct", "TupleStruct", "GameState"}

Schema(t) ==
    CASE t = "U8" -> SU(8) [] t = "U16" -> SU(16) [] t = "U32" -> SU(32)
      [] t = "U64" -> SU(64) [] t = "U128" -> SU(128)
      [] t = "I8" -> SI(8) [] t = "I16" -> SI(16) [] t = "I32" -> SI(32)
      [] t = "I64" -> SI(64) [] t = "I128" -> SI(128)
      [] t = "Bool" -> SBool [] t = "F32" -> SF(32) [] t = "F64" -> SF(64)
      [] t = "Char" -> SChar [] t = "String" -> SStr
      [] t = "OptionI32" -> SOpt(SI(32))
      [] t = "VecU8" -> SSeq(SU(8)) [] t = "VecString" -> SSeq(SStr)
      [] t = "MapStringI32" -> SMap(SStr, SI(32))
      [] t = "Primitives" -> Primitives [] t = "Collections" -> Collections
      [] t = "ComplexEnum" -> ComplexEnum [] t = "Nested" -> Nested
      [] t = "EdgeCases" -> EdgeCases [] t = "NewtypeStruct" -> NewtypeStruct
      [] t = "UnitStruct" -> UnitStruct [] t = "TupleStruct" -> TupleStruct
      [] t = "GameState" -> GameState

Samples(t) ==
    CASE t = "U8" -> USamples(8) [] t = "U16" -> USamples(16)
      [] t = "U32" -> USamples(32) [] t = "U64" -> USamples(64)
      [] t = "U128" -> USamples(128)
      [] t = "I8" -> ISamples(8) [] t = "I16" -> ISamples(16)
      [] t = "I32" -> ISamples(32) [] t = "I64" -> ISamples(64)
      [] t = "I128" -> ISamples(128)
      [] t = "Bool" -> {TRUE, FALSE}
      [] t = "F32" -> {primitives[12], player[4], Zeros(32), OneBit(31, 32),
                       Ones(32), LowOnes(31, 32)}
      [] t = "F64" -> {primitives[13], enum_struct.payload[1], Zeros(64),
                       OneBit(63, 64), Ones(64), LowOnes(63, 64)}
      [] t = "Char" -> {primitives[14], 0, 65, 127, 128, 233, 2047, 2048, 8364,
                        65535, 65536, 1114111}
      [] t = "String" -> {<<>>, primitives[15], <<195, 169>>,
                          encode_utf8(primitives[14]), Rep(97, 127), Rep(97, 128)}
      [] t = "OptionI32" -> {collections[5], collections[6], <<FromInt(5, 32)>>,
                             <<FromInt(-1, 32)>>, <<OneBit(31, 32)>>}
      [] t = "VecU8" -> {<<>>, collections[1], <<FromNat(255, 8)>>,
                         Rep(FromNat(200, 8), 20)}
      [] t = "VecString" -> {<<>>, collections[2], << <<>> >>}
      [] t = "MapStringI32" -> {<<>>, nested[2], SubSeq(nested[2], 1, 1),
                                SubSeq(nested[2], 1, 2)}
      [] t = "Primitives" -> {primitives}
      [] t = "Collections" -> {collections}
      [] t = "ComplexEnum" -> {enum_unit, enum_newtype, enum_tuple, enum_struct}
      [] t = "Nested" -> {nested, [nested EXCEPT ![2] = SubSeq(nested[2], 1, 1)]}
      [] t = "EdgeCases" -> {edge_cases}
      [] t = "NewtypeStruct" -> {newtype}
      [] t = "UnitStruct" -> {unit}
      [] t = "TupleStruct" -> {tuple_struct}
      [] t = "GameState" -> {game_state}

RECURSIVE HasMap(_)
HasMap(S) ==
    CASE S.k = "map" -> TRUE
      [] S.k \in {"seq", "opt", "newtype"} -> HasMap(S.of)
      [] S.k = "tuple" -> \E i \in 1..Len(S.fs) : HasMap(S.fs[i])
      [] S.k = "enum" ->
            \E i \in 1..Len(S.vs) : \E j \in 1..Len(S.vs[i]) : HasMap(S.vs[i][j])
      [] OTHER -> FALSE

\* The iteration orders a HashMap of up to MapEntries entries can come up in.
Orders(S) ==
    IF HasMap(S) THEN UNION {Permutations(1..n) : n \in 2..MapEntries}
    ELSE {<<>>}

Tails == UNION {[1..n -> TailBytes] : n \in 0..MaxTail}

(***************************************************************************)
(* Byte buffers that no encoder wrote, for the decoder's error paths       *)
(***************************************************************************)
TermBytes == {0, 1, 2, 3, 4, 15, 16, 127}

\* k continuation bytes, then nothing or one terminating byte
HostileVarint(w) ==
    {Rep(c, n) \o t :
        c \in {128, 255}, n \in 0..(varint_max(w) + 1),
        t \in {<<>>} \cup {<<b>> : b \in TermBytes}}

Foreign(t) ==
    CASE t = "U16" -> HostileVarint(16) \cup {<<172, 2>>}
      [] t = "U32" -> HostileVarint(32)
      [] t = "U64" -> HostileVarint(64)
      [] t = "U128" -> HostileVarint(128)
      [] t = "I16" -> HostileVarint(16)
      [] t = "I32" -> HostileVarint(32)
      [] t = "I64" -> HostileVarint(64)
      [] t = "I128" -> HostileVarint(128)
      [] t = "Bool" -> {<<b>> : b \in 0..3}
      [] t = "OptionI32" ->
            {<<b>> \o t2 : b \in 0..255, t2 \in {<<>>, <<10>>, <<255>>}}
      [] t \in {"ComplexEnum"} ->
            {<<b>> \o t2 : b \in 0..127, t2 \in {<<>>, <<5>>, <<0, 0, 0>>}}
            \cup {<<128 + b, c>> \o t2 :
                    b \in 0..5, c \in 0..2, t2 \in {<<>>, <<5>>}}
            \cup {Rep(255, n) : n \in 1..6}
      [] t = "String" ->
            {<<1, 255>>, <<2, 195, 40>>, <<2, 192, 128>>, <<3, 237, 160, 128>>,
             <<1, 128>>, <<2, 195>>, <<4, 240, 159, 166, 128>>, <<5, 104, 105>>}
      [] t = "Char" ->
            {<<1, 255>>, <<4, 240, 159, 166, 128>>, <<2, 192, 128>>, <<0>>,
             <<4, 240, 159>>}
      [] t = "UnitStruct" -> {<<>>, <<0>>, <<255, 255>>}
      [] t = "VecU8" -> {<<3, 1, 2>>, <<128>>, <<0>>, <<2, 255, 255, 9>>}
      [] t = "VecString" -> {<<2, 1, 97>>, <<1, 3, 97, 98>>, <<0>>, <<1, 1, 255>>}
      [] t = "MapStringI32" -> {<<1, 1, 97>>, <<2, 1, 97, 2>>, <<0>>, <<1, 1, 97, 2>>}
      [] t = "Nested" -> {<<1, 0>>, <<1, 0, 5>>}
      [] t = "GameState" -> {<<1, 0>>, SubSeq(Encode(player, Player), 1, 40)}
      [] OTHER -> {<<>>}

(***************************************************************************)
(* write_fixture                                                           *)
(***************************************************************************)
\* The encoding followed by a four-byte checksum.
to_allocvec_crc32(v, Sc) == Encode(v, Sc) \o <<0, 0, 0, 0>>

\* The encoding closed by a zero sentinel, as a framed message is.
to_allocvec_sentinel(v, Sc) == Encode(v, Sc) \o <<0>>

\* postcard::to_allocvec(value): the encoding and nothing else, no sentinel,
\* checksum or length frame around it
to_allocvec(v, S) == Encode(v, S)

(***************************************************************************)
(* The harness: a sample value is built, written out as a fixture, written *)
(* again from an equal value, or read back (whole, with bytes after it, or *)
(* cut short); a reader may also be handed bytes no encoder wrote.         *)
(***************************************************************************)
VARIABLES pc, ty, sample, value, bytes, again, input, result

vars == <<pc, ty, sample, value, bytes, again, input, result>>

Pending == Err("pending")

Init ==
    /\ pc = "start"
    /\ ty \in TypeNames
    /\ sample = <<>>
    /\ value = <<>>
    /\ bytes = <<>>
    /\ again = <<>>
    /\ input = <<>>
    /\ result = Pending

\* main builds a sample; a HashMap in it iterates in whatever order its
\* hasher gives.
Build ==
    /\ pc = "start"
    /\ \E v \in Samples(ty) : \E p \in Orders(Schema(ty)) :
          /\ sample' = v
          /\ value' = Rehash(v, Schema(ty), p)
    /\ pc' = "built"
    /\ UNCHANGED <<ty, bytes, again, input, result>>

WriteFixture ==
    /\ pc = "built"
    /\ bytes' = to_allocvec(value, Schema(ty))
    /\ pc' = "written"
    /\ UNCHANGED <<ty, sample, value, again, input, result>>

\* A second run of the generator: an equal value, its HashMaps in any order.
WriteAgain ==
    /\ pc = "written"
    /\ \E p \in Orders(Schema(ty)) :
          again' = to_allocvec(Rehash(sample, Schema(ty), p), Schema(ty))
    /\ pc' = "twice"
    /\ UNCHANGED <<ty, sample, value, bytes, input, result>>

\* The fixture is read back, possibly with further bytes behind it.
ReadFixture ==
    /\ pc = "written"
    /\ \E t \in Tails :
          /\ input' = bytes \o t
          /\ result' = Decode(bytes \o t, Schema(ty))
    /\ pc' = "read"
    /\ UNCHANGED <<ty, sample, value, bytes, again>>

\* Only a strict prefix of the fixture reaches the reader.
ReadTruncated ==
    /\ pc = "written"
    /\ \E n \in 0..(Len(bytes) - 1) :
          /\ input' = SubSeq(bytes, 1, n)
          /\ result' = Decode(SubSeq(bytes, 1, n), Schema(ty))
    /\ pc' = "cut"
    /\ UNCHANGED <<ty, sample, value, bytes, again>>

\* The reader is handed bytes no encoder wrote.
ReadForeign ==
    /\ pc = "start"
    /\ \E buf \in Foreign(ty) :
          /\ input' = buf
          /\ result' = Decode(buf, Schema(ty))
    /\ pc' = "foreign"
    /\ UNCHANGED <<ty, sample, value, bytes, again>>

Next ==
    \/ Build
    \/ WriteFixture
    \/ WriteAgain
    \/ ReadFixture
    \/ ReadTruncated
    \/ ReadForeign

Spec == Init /\ [][Next]_vars

(***************************************************************************)
(* Properties                                                              *)
(***************************************************************************)
S == Schema(ty)

\* Bit j (1 the least significant) of the number whose 7-bit groups, least
\* significant group first, are the low seven bits of the bytes bs.
GroupBit(bs, j) ==
    LET g == ((j - 1) \div 7) + 1
    IN  IF g > Len(bs) THEN 0 ELSE ((bs[g] % 128) \div 2^((j - 1) % 7)) % 2

\* bs is the variable-length form of the w-bit value v: 7-bit groups least
\* significant first, the high bit set on every byte but the last, no group
\* after the value is used up.
IsVarintOf(bs, v) ==
    /\ Len(bs) >= 1
    /\ \A i \in 1..(Len(bs) - 1) : bs[i] >= 128
    /\ bs[Len(bs)] < 128
    /\ Len(bs) > 1 => bs[Len(bs)] # 0
    /\ \A j \in 1..(7 * Len(bs)) : GroupBit(bs, j) = (IF j <= Len(v) THEN v[j] ELSE 0)
    /\ \A j \in 1..Len(v) : v[j] = GroupBit(bs, j)

\* The zig-zag code of an integer: 2n for n >= 0, 2|n| - 1 for n < 0.
ZigZagCode(n) == IF n >= 0 THEN 2 * n ELSE 2 * (-n) - 1

\* The signed value fits well inside 31 bits.
SmallSigned(v) == \A i \in 29..Len(v) : v[i] = v[Len(v)]

\* The sequences of ss one after the other.
RECURSIVE Flat(_)
Flat(ss) ==
    IF Len(ss) = 0 THEN <<>>
    ELSE IF Len(ss) = 1 THEN ss[1]
    ELSE LET h == Len(ss) \div 2
         IN  Flat(SubSeq(ss, 1, h)) \o Flat(SubSeq(ss, h + 1, Len(ss)))

\* Number of leading bytes up to and including the first one below 128.
PrefixLen(bs) ==
    CHOOSE i \in 1..Len(bs) : bs[i] < 128 /\ \A j \in 1..(i - 1) : bs[j] >= 128

HasTerminator(bs) == \E i \in 1..Len(bs) : bs[i] < 128

\* No HashMap inside v holds more than one entry.
RECURSIVE MapsSmall(_, _)
MapsSmall(v, Sc) ==
    CASE Sc.k = "map" ->
            Len(v) <= 1 /\ \A i \in 1..Len(v) : MapsSmall(v[i][2], Sc.val)
      [] Sc.k \in {"seq", "opt"} -> \A i \in 1..Len(v) : MapsSmall(v[i], Sc.of)
      [] Sc.k = "tuple" -> \A i \in 1..Len(v) : MapsSmall(v[i], Sc.fs[i])
      [] Sc.k = "newtype" -> MapsSmall(v, Sc.of)
      [] Sc.k = "enum" ->
            \A i \in 1..Len(v.payload) :
                MapsSmall(v.payload[i], Sc.vs[v.idx + 1][i])
      [] OTHER -> TRUE

Count(bs, b) == Cardinality({i \in 1..Len(bs) : bs[i] = b})

SameBytes(a, b) ==
    /\ Len(a) = Len(b)
    /\ \A x \in {a[i] : i \in 1..Len(a)} : Count(a, x) = Count(b, x)

C2_Deterministic == pc = "twice" => again = bytes

\* C2 amended: two equal values give the same bytes when no HashMap in them
\* holds more than one entry; otherwise the two outputs hold the same bytes in
\* a possibly different order (the map's entries permuted).
C2_DeterministicUpToMapOrder ==
    pc = "twice" =>
        /\ MapsSmall(sample, S) => again = bytes
        /\ SameBytes(again, bytes)

C2_Witness ==
    /\ pc = "twice"
    /\ ty = "Nested"
    /\ ~MapsSmall(sample, S)
    /\ again # bytes
    /\ SameBytes(again, bytes)

\* C3 as stated: every unsigned integer, the 8-bit ones included, is written
\* in the variable-length form.
C3_UnsignedAllVarint ==
    /\ (pc = "written" /\ S.k = "u") =>
          /\ IsVarintOf(bytes, value)
          /\ value = Zeros(S.w) => bytes = <<0>>
          /\ (S.w > 8 /\ value = FromNat(300, S.w)) => bytes = <<172, 2>>
    /\ (pc = "foreign" /\ ty = "U16" /\ input = <<172, 2>>) =>
          result = Ok(FromNat(300, 16), <<>>)

\* C3 amended: u16 to u128 are written in the variable-length form (0 is the
\* byte 0x00, 300 is 0xAC 0x02, and 0xAC 0x02 reads back as 300); a u8 is
\* written as the one byte that is its value.
C3_UnsignedWire ==
    /\ (pc = "written" /\ S.k = "u") =>
          /\ S.w = 8 => bytes = <<ToNat(value)>>
          /\ S.w > 8 => IsVarintOf(bytes, value)
          /\ (S.w > 8 /\ value = FromNat(300, S.w)) => bytes = <<172, 2>>
          /\ (S.w > 8 /\ value = Zeros(S.w)) => bytes = <<0>>
    /\ (pc = "foreign" /\ ty = "U16" /\ input = <<172, 2>>) =>
          result = Ok(FromNat(300, 16), <<>>)
    /\ (pc = "written" /\ ty = "Primitives") =>
          SubSeq(bytes, 27, 30) = <<255, 255, 255, 3>>
    /\ (pc = "written" /\ ty = "EdgeCases") => SubSeq(bytes, 3, 4) = <<0, 255>>

C3_Witness ==
    /\ pc = "written"
    /\ ty = "U8"
    /\ value = Ones(8)
    /\ bytes = <<255>>

\* C4 as stated: every signed integer, the 8-bit ones included, is written
\* as the varint of its zig-zag code, the minimum of a width as the varint of
\* the width's largest unsigned value.
C4_SignedAllZigZag ==
    /\ (pc = "written" /\ S.k = "i") =>
          /\ SmallSigned(value) =>
                IsVarintOf(bytes, FromNat(ZigZagCode(ToInt(value)), S.w))
          /\ value = OneBit(S.w - 1, S.w) => IsVarintOf(bytes, Ones(S.w))
    /\ (pc = "read" /\ S.k = "i") =>
          /\ result.err = "none"
          /\ result.val = value
    /\ (pc = "written" /\ ty = "OptionI32" /\ value = <<FromInt(5, 32)>>) =>
          bytes = <<1, 10>>

\* C4 amended: i16 to i128 are written as the varint of the zig-zag code, the
\* minimum of the width as the width's largest unsigned value; an i8 is
\* written as its one two's-complement byte; all of them read back exactly,
\* and Some(5) as Option<i32> is 0x01 0x0A.
C4_SignedWire ==
    /\ (pc = "written" /\ S.k = "i" /\ S.w > 8) =>
          /\ SmallSigned(value) =>
                IsVarintOf(bytes, FromNat(ZigZagCode(ToInt(value)), S.w))
          /\ value = OneBit(S.w - 1, S.w) => IsVarintOf(bytes, Ones(S.w))
    /\ (pc = "written" /\ S.k = "i" /\ S.w = 8) =>
          bytes = <<(ToInt(value) + 256) % 256>>
    /\ (pc = "read" /\ S.k = "i") =>
          /\ result.err = "none"
          /\ result.val = value
    /\ (pc = "written" /\ ty = "OptionI32" /\ value = <<FromInt(5, 32)>>) =>
          bytes = <<1, 10>>

C4_Witness ==
    /\ pc = "read"
    /\ ty = "I128"
    /\ value = OneBit(127, 128)
    /\ Len(bytes) = 19
    /\ result.val = value

\* C5: a Vec, HashMap or String is written as its count (elements, entries,
\* bytes) in the variable-length form followed by exactly that many elements,
\* key/value pairs or bytes in iteration order; an empty one is the single
\* byte 0x00 and reads back empty.
C5_LengthPrefixed ==
    /\ (pc = "written" /\ S.k \in {"seq", "map", "str"}) =>
          LET n == PrefixLen(bytes)
              body == SubSeq(bytes, n + 1, Len(bytes))
          IN  /\ IsVarintOf(SubSeq(bytes, 1, n), FromNat(Len(value), 64))
              /\ S.k = "str" => body = value
              /\ S.k = "seq" =>
                    body = Flat([i \in 1..Len(value) |-> Encode(value[i], S.of)])
              /\ S.k = "map" =>
                    body = Flat([i \in 1..Len(value) |->
                                    Encode(value[i][1], S.key)
                                    \o Encode(value[i][2], S.val)])
              /\ value = <<>> => bytes = <<0>>
    /\ (pc = "read" /\ S.k \in {"seq", "map", "str"}) =>
          /\ result.err = "none"
          /\ Len(result.val) = Len(value)
          /\ value = <<>> => result.val = <<>>
    /\ (pc = "written" /\ ty = "EdgeCases") => SubSeq(bytes, 1, 2) = <<0, 0>>

C5_Witness ==
    /\ pc = "read"
    /\ ty = "String"
    /\ Len(value) = 128
    /\ Len(bytes) = 130
    /\ SubSeq(bytes, 1, 2) = <<128, 1>>
    /\ Len(result.val) = 128

C7_OptionTag ==
    /\ (pc = "written" /\ ty = "OptionI32") =>
          /\ value = <<>> => bytes = <<0>>
          /\ value # <<>> =>
                /\ bytes[1] = 1
                /\ Tail(bytes) = Encode(value[1], SI(32))
    /\ (pc = "written" /\ ty = "Collections") =>
          SubSeq(bytes, Len(bytes) - 4, Len(bytes)) = <<1, 242, 192, 1, 0>>
    /\ (pc = "foreign" /\ ty = "OptionI32" /\ input # <<>>) =>
          /\ input[1] = 0 => result = Ok(<<>>, Tail(input))
          /\ input[1] = 1 =>
                /\ result.err # "InvalidOptionTag"
                /\ result.err = "none" => Len(result.val) = 1
          /\ input[1] >= 2 => result.err = "InvalidOptionTag"

C7_Witness ==
    /\ pc = "foreign"
    /\ ty = "OptionI32"
    /\ input = <<2, 10>>
    /\ result.err = "InvalidOptionTag"

\* C8: an enum value is written as the declaration index of its variant
\* followed by the variant's fields; a reader rejects an index that is not
\* below the number of variants (4 for ComplexEnum) and otherwise reads that
\* variant's fields.
C8_VariantIndex ==
    /\ (pc = "written" /\ S.k = "enum") =>
          /\ bytes[1] = value.idx
          /\ Tail(bytes) =
                Flat([i \in 1..Len(value.payload) |->
                         Encode(value.payload[i], S.vs[value.idx + 1][i])])
    /\ (pc = "written" /\ ty = "ComplexEnum" /\ value = enum_unit) => bytes = <<0>>
    /\ (pc = "written" /\ ty = "ComplexEnum" /\ value = enum_newtype) =>
          bytes = <<1, 231, 7>>
    /\ (pc = "written" /\ ty = "ComplexEnum" /\ value = enum_tuple) =>
          bytes = <<2, 5, 116, 117, 112, 108, 101, 231, 7, 0>>
    /\ (pc = "foreign" /\ ty = "ComplexEnum" /\ HasTerminator(input)) =>
          LET n == PrefixLen(input)
              big == \E j \in 3..(7 * n) : GroupBit(input, j) = 1
              small == 2 * GroupBit(input, 2) + GroupBit(input, 1)
          IN  /\ (n <= 5 /\ big) => result.err = "UnknownVariant"
              /\ (n <= 5 /\ ~big) =>
                    /\ result.err # "UnknownVariant"
                    /\ result.err = "none" => result.val.idx = small

C8_Witness ==
    /\ pc = "foreign"
    /\ ty = "ComplexEnum"
    /\ input = <<4>>
    /\ result.err = "UnknownVariant"

\* The groups of bs up to its terminator carry a set bit at or beyond bit w.
Exceeds(bs, w) == \E j \in (w + 1)..(7 * PrefixLen(bs)) : GroupBit(bs, j) = 1

====
